---- MODULE Spec2Model ----
(***************************************************************************)
(* Model of the SDS packet codec and request builder (src/sds.py,          *)
(* src/sds_types.py).  Python bytearrays are sequences of numbers in       *)
(* 0..255; a Python exception is a record whose field exc is TRUE and      *)
(* whose field cls is the exception's class name.                          *)
(***************************************************************************)
EXTENDS Integers, Sequences, FiniteSets, TLC

VARIABLES
    call,     \* the pending invocation: the function and its arguments
    op,       \* the last operation that ran ("start" before any ran)
    orig,     \* the bytes the bytearray given to MsgPacket.parse held at the call
    buf,      \* the bytes that bytearray object holds now
    packet,   \* what MsgPacket.parse returned or raised
    msg,      \* the Msg object (or the exception its constructor raised)
    req,      \* the Request object (or the exception its constructor raised)
    text,     \* str(req)
    ret       \* what a static helper called on its own returned or raised

vars == <<call, op, orig, buf, packet, msg, req, text, ret>>

-----------------------------------------------------------------------------
(* Bounds of the model *)

\* longest frame among the exhaustively enumerated inputs of MsgPacket.parse
MaxLen == 4
\* longest payload given to the Request constructor
MaxPayload == 15
\* longest key given to security_access_send_key
MaxKey == 5
\* longest chunk given to transfer_data and flow_control_request
MaxChunk == 3
\* longest arbitration-id text among the exhaustively enumerated ids
MaxIdLen == 3

-----------------------------------------------------------------------------
(* sds_types.py: the closed code tables *)

ECU_BCM == \H7C0
ECU_ECM == \H7E0
ECU == {ECU_BCM, ECU_ECM}

ECU_Mode_Default == \H01
ECU_Mode_Diagnostic == \H02
ECU_Mode_Device_Control == \H03
ECU_Mode == {ECU_Mode_Default, ECU_Mode_Diagnostic, ECU_Mode_Device_Control}

SecurityAccessFunction_Seed == \H01
SecurityAccessFunction_Key == \H02

DID == {0, 1, 2, 3}

DataTransferFunction_Download == \H00
DataTransferFunction_DownloadAndExecute == \H80
DataTransferFunction ==
    {DataTransferFunction_Download, DataTransferFunction_DownloadAndExecute}

FailureReason == {\H11, \H12, \H13, \H14, \H15, \H16}

Service_Initiate_Diagnostic_Session == \H20
Service_Return_To_Normal == \H21
Service_Security_Access == \H22
Service_Read_Memory_By_Address == \H23
Service_Read_DID_By_ID == \H24
Service_Programming_Mode == \H25
Service_Request_Download == \H26
Service_Transfer_Data == \H27
Service ==
    {Service_Initiate_Diagnostic_Session, Service_Return_To_Normal,
     Service_Security_Access, Service_Read_Memory_By_Address,
     Service_Read_DID_By_ID, Service_Programming_Mode,
     Service_Request_Download, Service_Transfer_Data}

ResponseType_Failure == \H7F
ResponseType == {\H60, \H61, \H62, \H63, \H64, \H65, \H66, \H67, ResponseType_Failure}

-----------------------------------------------------------------------------
(* Python values *)

None == [cls |-> "None", exc |-> FALSE]

\* an exception of class c
Exception(c) == [cls |-> c, exc |-> TRUE]

\* the outcome of a call that consumes a bytearray: what it returned or
\* raised, and what the bytearray holds afterwards
Outcome(r, d) == [ret |-> r, data |-> d]

\* int & int on non-negative ints
RECURSIVE BitAnd(_, _)
BitAnd(a, b) ==
    IF a = 0 \/ b = 0 THEN 0
    ELSE (a % 2) * (b % 2) + 2 * BitAnd(a \div 2, b \div 2)

\* Enum(value): the member with that value, ValueError when there is none
EnumLookup(enum, value) ==
    IF value \in enum
    THEN [cls |-> "Enum", exc |-> FALSE, value |-> value]
    ELSE Exception("ValueError")

-----------------------------------------------------------------------------
(* sds.py: the packet classes.  A packet's data, request_data or           *)
(* response_data attribute is a reference: to the bytearray object the     *)
(* packet was built from ("buf"), or to the literal b"" ("literal").       *)

\* mutant: the two popped bytes reach Failure in the other order
Failure_init_swapped(service, code) ==
    LET s == EnumLookup(Service, code)
        r == EnumLookup(FailureReason, service)
    IN  IF s.exc THEN s
        ELSE IF r.exc THEN r
        ELSE [cls |-> "Failure", exc |-> FALSE,
              service |-> s.value, reason |-> r.value]

\* Failure.__init__: Service(service) first, FailureReason(code) second
Failure_init(service, code) ==
    LET s == EnumLookup(Service, service)
        r == EnumLookup(FailureReason, code)
    IN  IF s.exc THEN s
        ELSE IF r.exc THEN r
        ELSE [cls |-> "Failure", exc |-> FALSE,
              service |-> s.value, reason |-> r.value]

\* mutant: the continue marker is matched by its high nibble, like the frame's
ControlFlowPacket_class_for_ptype_masked(ptype) ==
    IF ptype = \H10 THEN "ControlFlowRequestPacket"
    ELSE IF BitAnd(ptype, \HF0) = \H20 THEN "ControlFlowFramePacket"
    ELSE IF BitAnd(ptype, \HF0) = \H30 THEN "ControlFlowResponsePacket"
    ELSE "None"

ControlFlowPacket_class_for_ptype(ptype) ==
    IF ptype = \H10 THEN "ControlFlowRequestPacket"
    ELSE IF BitAnd(ptype, \HF0) = \H20 THEN "ControlFlowFramePacket"
    ELSE IF ptype = \H30 THEN "ControlFlowResponsePacket"
    ELSE "None"

\* mutant: the length byte is read but left in the data
ControlFlowRequestPacket_init_keeps_length(data) ==
    LET d1 == Tail(data)
    IN  IF d1 = <<>> THEN Outcome(Exception("IndexError"), d1)
        ELSE Outcome([cls |-> "ControlFlowRequestPacket", exc |-> FALSE,
                      data_length |-> Head(d1), data |-> "buf"],
                     d1)

ControlFlowRequestPacket_init(data) ==
    LET d1 == Tail(data)
    IN  IF d1 = <<>> THEN Outcome(Exception("IndexError"), d1)
        ELSE Outcome([cls |-> "ControlFlowRequestPacket", exc |-> FALSE,
                      data_length |-> Head(d1), data |-> "buf"],
                     Tail(d1))

ControlFlowFramePacket_init(data) ==
    Outcome([cls |-> "ControlFlowFramePacket", exc |-> FALSE,
             data_length |-> 7, data |-> "buf"],
            Tail(data))

ControlFlowResponsePacket_init(data) ==
    Outcome([cls |-> "ControlFlowResponsePacket", exc |-> FALSE,
             data |-> "literal"],
            Tail(data))

ControlFlowPacket_parse(data) ==
    LET packet_class == ControlFlowPacket_class_for_ptype(data[1])
    IN  CASE packet_class = "ControlFlowRequestPacket" ->
                ControlFlowRequestPacket_init(data)
          [] packet_class = "ControlFlowFramePacket" ->
                ControlFlowFramePacket_init(data)
          [] packet_class = "ControlFlowResponsePacket" ->
                ControlFlowResponsePacket_init(data)
          [] OTHER -> Outcome(Exception("TypeError"), data)

\* mutant: the bytes beyond packet_length are kept
CommandPacket_init_keeps_excess(data) ==
    [packet_length |-> Head(data), data |-> Tail(data)]

\* CommandPacket.__init__: pops the length byte, then pops from the end
\* while more than packet_length bytes are left
CommandPacket_init(data) ==
    LET packet_length == Head(data)
        rest == Tail(data)
    IN  [packet_length |-> packet_length,
         data |-> IF Len(rest) > packet_length
                  THEN SubSeq(rest, 1, packet_length)
                  ELSE rest]

CommandResponsePacket_init(data) ==
    LET base == CommandPacket_init(data)
    IN  IF base.data = <<>> THEN Outcome(Exception("IndexError"), base.data)
        ELSE LET response_code == EnumLookup(ResponseType, Head(base.data))
             IN  IF response_code.exc
                 THEN Outcome(response_code, Tail(base.data))
                 ELSE Outcome([cls |-> "CommandResponsePacket", exc |-> FALSE,
                               packet_length |-> base.packet_length,
                               response_code |-> response_code.value,
                               response_data |-> "buf"],
                              Tail(base.data))

\* mutant: a frame shorter than its length byte says is rejected
CommandRequestPacket_init_rejects_short(data) ==
    LET base == CommandPacket_init(data)
    IN  IF Len(base.data) < base.packet_length \/ base.data = <<>>
        THEN Outcome(Exception("IndexError"), base.data)
        ELSE LET service == EnumLookup(Service, Head(base.data))
             IN  IF service.exc
                 THEN Outcome(service, Tail(base.data))
                 ELSE Outcome([cls |-> "CommandRequestPacket", exc |-> FALSE,
                               packet_length |-> base.packet_length,
                               service |-> service.value,
                               request_data |-> "buf"],
                              Tail(base.data))

CommandRequestPacket_init(data) ==
    LET base == CommandPacket_init(data)
    IN  IF base.data = <<>> THEN Outcome(Exception("IndexError"), base.data)
        ELSE LET service == EnumLookup(Service, Head(base.data))
             IN  IF service.exc
                 THEN Outcome(service, Tail(base.data))
                 ELSE Outcome([cls |-> "CommandRequestPacket", exc |-> FALSE,
                               packet_length |-> base.packet_length,
                               service |-> service.value,
                               request_data |-> "buf"],
                              Tail(base.data))

\* CommandFailurePacket.__init__: three pops, each an IndexError on an empty
\* bytearray, then Failure(service, code)
CommandFailurePacket_init(data) ==
    LET base == CommandPacket_init(data)
        n == Len(base.data)
    IN  IF n < 3 THEN Outcome(Exception("IndexError"), <<>>)
        ELSE LET failure == Failure_init(base.data[2], base.data[3])
                 left == SubSeq(base.data, 4, n)
             IN  IF failure.exc THEN Outcome(failure, left)
                 ELSE Outcome([cls |-> "CommandFailurePacket", exc |-> FALSE,
                               packet_length |-> base.packet_length,
                               failure |-> failure],
                              left)

CommandPacket_parse(data) ==
    IF Len(data) < 2 THEN Outcome(Exception("IndexError"), data)
    ELSE LET ptype == data[2]
         IN  IF ptype = \H7F THEN CommandFailurePacket_init(data)
             ELSE IF ptype < \H30 THEN CommandRequestPacket_init(data)
             ELSE CommandResponsePacket_init(data)

MsgPacket_parse(data) ==
    IF Len(data) < 1 THEN Outcome(Exception("IndexError"), data)
    ELSE IF data[1] <= \H0F THEN CommandPacket_parse(data)
    ELSE ControlFlowPacket_parse(data)

-----------------------------------------------------------------------------
(* Python conversions *)

RECURSIVE Pow(_, _)
Pow(b, e) == IF e = 0 THEN 1 ELSE b * Pow(b, e - 1)

\* int.to_bytes(length, "big") of a non-negative int, length >= 1:
\* OverflowError when n >= 256^length
to_bytes(n, length) ==
    IF n \div Pow(256, length - 1) >= 256 THEN Exception("OverflowError")
    ELSE [cls |-> "bytes", exc |-> FALSE,
          value |-> [i \in 1..length |-> (n \div Pow(256, length - i)) % 256]]

\* bytes([...]): every element must be in range(0, 256)
bytes_of(ints) ==
    IF \E i \in 1..Len(ints) : ints[i] < 0 \/ ints[i] > 255
    THEN Exception("ValueError")
    ELSE [cls |-> "bytes", exc |-> FALSE, value |-> ints]

HexDigits == <<"0", "1", "2", "3", "4", "5", "6", "7",
               "8", "9", "a", "b", "c", "d", "e", "f">>

\* A str is the sequence of its characters.

\* format(n, "x"): lowercase hex, no leading zeros
RECURSIVE format_x(_)
format_x(n) ==
    IF n < 16 THEN <<HexDigits[n + 1]>>
    ELSE Append(format_x(n \div 16), HexDigits[(n % 16) + 1])

\* bytes.hex(): two lowercase hex digits per byte, no separators
RECURSIVE bytes_hex(_)
bytes_hex(b) ==
    IF b = <<>> THEN <<>>
    ELSE <<HexDigits[(Head(b) \div 16) + 1], HexDigits[(Head(b) % 16) + 1]>>
         \o bytes_hex(Tail(b))

\* the value of a character as a digit, -1 when it is none
DigitValue(c) ==
    CASE c = "0" -> 0 [] c = "1" -> 1 [] c = "2" -> 2 [] c = "3" -> 3
      [] c = "4" -> 4 [] c = "5" -> 5 [] c = "6" -> 6 [] c = "7" -> 7
      [] c = "8" -> 8 [] c = "9" -> 9
      [] c \in {"a", "A"} -> 10 [] c \in {"b", "B"} -> 11
      [] c \in {"c", "C"} -> 12 [] c \in {"d", "D"} -> 13
      [] c \in {"e", "E"} -> 14 [] c \in {"f", "F"} -> 15
      [] OTHER -> -1

RECURSIVE DigitsValue(_, _, _)
DigitsValue(chars, base, acc) ==
    IF chars = <<>> THEN acc
    ELSE DigitsValue(Tail(chars), base, acc * base + DigitValue(Head(chars)))

\* int(text, base) for base 10 and 16, on a text (a sequence of characters)
\* without sign, blank or underscore: an optional 0x or 0X before base-16
\* digits; ValueError when no digit is left or a character is no digit
int_of(chars, base) ==
    LET prefixed == /\ base = 16
                    /\ Len(chars) >= 2
                    /\ chars[1] = "0"
                    /\ chars[2] \in {"x", "X"}
        digits == IF prefixed THEN SubSeq(chars, 3, Len(chars)) ELSE chars
    IN  IF \/ digits = <<>>
           \/ \E i \in 1..Len(digits) :
                 DigitValue(digits[i]) < 0 \/ DigitValue(digits[i]) >= base
        THEN Exception("ValueError")
        ELSE [cls |-> "int", exc |-> FALSE, value |-> DigitsValue(digits, base, 0)]

\* the characters of the ASCII codes the inputs use
AsciiChar(code) ==
    CASE code \in 48..57 -> HexDigits[code - 47]
      [] code \in 97..102 -> HexDigits[code - 86]
      [] code = 65 -> "A" [] code = 66 -> "B" [] code = 67 -> "C"
      [] code = 68 -> "D" [] code = 69 -> "E" [] code = 70 -> "F"
      [] code = 88 -> "X" [] code = 120 -> "x"
      [] code = 91 -> "[" [] code = 93 -> "]"
      [] code = 110 -> "n"
      [] OTHER -> "?"

\* bytes.decode(): UnicodeDecodeError on a byte that starts no UTF-8 sequence
\* (the inputs hold ASCII and 0xFF only)
bytes_decode(b) ==
    IF \E i \in 1..Len(b) : b[i] >= 128 THEN Exception("UnicodeDecodeError")
    ELSE [cls |-> "str", exc |-> FALSE,
          value |-> [i \in 1..Len(b) |-> AsciiChar(b[i])]]

\* str.strip("[]"): drops leading and trailing characters that are [ or ]
RECURSIVE lstrip_brackets(_)
lstrip_brackets(chars) ==
    IF chars # <<>> /\ Head(chars) \in {"[", "]"}
    THEN lstrip_brackets(Tail(chars))
    ELSE chars

RECURSIVE rstrip_brackets(_)
rstrip_brackets(chars) ==
    IF chars # <<>> /\ chars[Len(chars)] \in {"[", "]"}
    THEN rstrip_brackets(SubSeq(chars, 1, Len(chars) - 1))
    ELSE chars

strip_brackets(chars) == rstrip_brackets(lstrip_brackets(chars))

\* Python arguments that may come in several types carry their type:
\* [t |-> "int" | "str" | "bytes" | "ECU", v |-> the value]
Arg(t, v) == [t |-> t, v |-> v]

-----------------------------------------------------------------------------
(* sds.py: Msg *)

MsgDirection_Request == 0
MsgDirection_Response == 1

Msg_parse_size(data_size) ==
    LET decoded == IF data_size.t = "bytes" THEN bytes_decode(data_size.v)
                   ELSE [cls |-> data_size.t, exc |-> FALSE, value |-> data_size.v]
    IN  IF decoded.exc THEN decoded
        ELSE IF decoded.cls = "str"
             THEN int_of(strip_brackets(decoded.value), 10)
             ELSE [cls |-> "int", exc |-> FALSE, value |-> decoded.value]

\* mutant: the ECU is looked up by the whole id, the low nibble included
Msg_parse_ecu_id_unmasked(ecu_id_unparsed) ==
    LET decoded == IF ecu_id_unparsed.t = "bytes"
                   THEN bytes_decode(ecu_id_unparsed.v)
                   ELSE [cls |-> ecu_id_unparsed.t, exc |-> FALSE,
                         value |-> ecu_id_unparsed.v]
        parsed == IF decoded.exc THEN decoded
                  ELSE IF decoded.cls = "str" THEN int_of(decoded.value, 16)
                  ELSE decoded
    IN  IF parsed.exc THEN parsed
        ELSE IF parsed.cls = "int"
             THEN LET ecu == EnumLookup(ECU, parsed.value)
                      last_nibble == BitAnd(parsed.value, \HF)
                  IN  IF ecu.exc THEN ecu
                      ELSE [cls |-> "tuple", exc |-> FALSE, ecu |-> ecu.value,
                            msg_dir |-> IF last_nibble = 0
                                        THEN MsgDirection_Request
                                        ELSE MsgDirection_Response]
             ELSE [cls |-> "tuple", exc |-> FALSE, ecu |-> parsed.value,
                   msg_dir |-> MsgDirection_Request]

Msg_parse_ecu_id(ecu_id_unparsed) ==
    LET decoded == IF ecu_id_unparsed.t = "bytes"
                   THEN bytes_decode(ecu_id_unparsed.v)
                   ELSE [cls |-> ecu_id_unparsed.t, exc |-> FALSE,
                         value |-> ecu_id_unparsed.v]
        parsed == IF decoded.exc THEN decoded
                  ELSE IF decoded.cls = "str" THEN int_of(decoded.value, 16)
                  ELSE decoded
    IN  IF parsed.exc THEN parsed
        ELSE IF parsed.cls = "int"
             THEN LET ecu == EnumLookup(ECU, BitAnd(parsed.value, \HFF0))
                      last_nibble == BitAnd(parsed.value, \HF)
                  IN  IF ecu.exc THEN ecu
                      ELSE [cls |-> "tuple", exc |-> FALSE, ecu |-> ecu.value,
                            msg_dir |-> IF last_nibble = 0
                                        THEN MsgDirection_Request
                                        ELSE MsgDirection_Response]
             ELSE [cls |-> "tuple", exc |-> FALSE, ecu |-> parsed.value,
                   msg_dir |-> MsgDirection_Request]

\* Msg.__init__: the interface, the ECU and direction, the size, then the
\* packet parsed from a fresh bytearray of msg_bytes
Msg_init(can_interface, ecu_id, data_size, msg_bytes) ==
    LET iface == IF can_interface.t = "bytes" THEN bytes_decode(can_interface.v)
                 ELSE [cls |-> "str", exc |-> FALSE, value |-> can_interface.v]
        id == Msg_parse_ecu_id(ecu_id)
        size == Msg_parse_size(data_size)
        fresh == bytes_of(msg_bytes)
    IN  IF iface.exc THEN Outcome(iface, <<>>)
        ELSE IF id.exc THEN Outcome(id, <<>>)
        ELSE IF size.exc THEN Outcome(size, <<>>)
        ELSE IF fresh.exc THEN Outcome(fresh, <<>>)
        ELSE LET out == MsgPacket_parse(fresh.value)
             IN  IF out.ret.exc THEN out
                 ELSE Outcome([cls |-> "Msg", exc |-> FALSE,
                               can_interface |-> iface.value,
                               ecu |-> id.ecu, direction |-> id.msg_dir,
                               data_size |-> size.value,
                               packet |-> out.ret],
                              out.data)

-----------------------------------------------------------------------------
(* sds.py: Request *)

\* mutant: the default length leaves the service byte out
Request_init_len_without_service(ecu, service, packet_len, data, interface) ==
    LET parsed == IF ecu.t = "str" THEN int_of(ecu.v, 16)
                  ELSE [cls |-> ecu.t, exc |-> FALSE, value |-> ecu.v]
        member == IF parsed.exc THEN parsed
                  ELSE IF parsed.cls = "int" THEN EnumLookup(ECU, parsed.value)
                  ELSE parsed
        len == IF packet_len = None THEN Len(data) ELSE packet_len.value
        raw == IF service = None THEN bytes_of(<<len>> \o data)
               ELSE bytes_of(<<len, service.value>> \o data)
    IN  IF member.exc THEN member
        ELSE IF raw.exc THEN raw
        ELSE [cls |-> "Request", exc |-> FALSE, ecu |-> member.value,
              interface |-> interface, data |-> raw.value]

\* mutant: an explicit packet_len is ignored
Request_init_ignores_packet_len(ecu, service, packet_len, data, interface) ==
    LET parsed == IF ecu.t = "str" THEN int_of(ecu.v, 16)
                  ELSE [cls |-> ecu.t, exc |-> FALSE, value |-> ecu.v]
        member == IF parsed.exc THEN parsed
                  ELSE IF parsed.cls = "int" THEN EnumLookup(ECU, parsed.value)
                  ELSE parsed
        len == 1 + Len(data)
        raw == IF service = None THEN bytes_of(<<len>> \o data)
               ELSE bytes_of(<<len, service.value>> \o data)
    IN  IF member.exc THEN member
        ELSE IF raw.exc THEN raw
        ELSE [cls |-> "Request", exc |-> FALSE, ecu |-> member.value,
              interface |-> interface, data |-> raw.value]

\* Request.__init__; service is None or an enum member, packet_len is None
\* or an int
Request_init(ecu, service, packet_len, data, interface) ==
    LET parsed == IF ecu.t = "str" THEN int_of(ecu.v, 16)
                  ELSE [cls |-> ecu.t, exc |-> FALSE, value |-> ecu.v]
        member == IF parsed.exc THEN parsed
                  ELSE IF parsed.cls = "int" THEN EnumLookup(ECU, parsed.value)
                  ELSE parsed
        len == IF packet_len = None THEN 1 + Len(data) ELSE packet_len.value
        raw == IF service = None THEN bytes_of(<<len>> \o data)
               ELSE bytes_of(<<len, service.value>> \o data)
    IN  IF member.exc THEN member
        ELSE IF raw.exc THEN raw
        ELSE [cls |-> "Request", exc |-> FALSE, ecu |-> member.value,
              interface |-> interface, data |-> raw.value]

Request_str(r) == format_x(r.ecu) \o <<"#">> \o bytes_hex(r.data)

Member(v) == [cls |-> "Enum", exc |-> FALSE, value |-> v]
IntValue(v) == [cls |-> "int", exc |-> FALSE, value |-> v]

Request_set_mode(mode, ecu, interface) ==
    Request_init(ecu, Member(Service_Initiate_Diagnostic_Session), None,
                 <<mode>>, interface)

Request_return_to_normal(ecu, interface) ==
    Request_init(ecu, Member(Service_Return_To_Normal), None, <<>>, interface)

Request_security_access_seed(ecu, interface) ==
    Request_init(ecu, Member(Service_Security_Access), None,
                 <<SecurityAccessFunction_Seed>>, interface)

Request_security_access_send_key(key, ecu, interface) ==
    Request_init(ecu, Member(Service_Security_Access), IntValue(\H6),
                 <<SecurityAccessFunction_Key>> \o key, interface)

Request_read_address(address, length, ecu, interface) ==
    LET a == to_bytes(address, 4)
        l == to_bytes(length, 2)
    IN  IF a.exc THEN a
        ELSE IF l.exc THEN l
        ELSE Request_init(ecu, Member(Service_Read_Memory_By_Address), IntValue(\H8),
                          a.value \o l.value, interface)

Request_read_did(did, ecu, interface) ==
    Request_init(ecu, Member(Service_Read_DID_By_ID), None, <<did>>, interface)

Request_programming_mode(ecu, interface) ==
    Request_init(ecu, Member(Service_Programming_Mode), None, <<>>, interface)

Request_request_download(size, ecu, interface) ==
    LET s == to_bytes(size, 2)
    IN  IF s.exc THEN s
        ELSE Request_init(ecu, Member(Service_Request_Download), None,
                          s.value, interface)

Request_transfer_data(address, data, packet_len, function, ecu, interface) ==
    LET a == to_bytes(address, 4)
    IN  IF a.exc THEN a
        ELSE Request_init(ecu, Member(Service_Transfer_Data), IntValue(packet_len),
                          <<function>> \o a.value \o data, interface)

Request_execute_data(ecu, interface) ==
    Request_init(ecu, Member(Service_Transfer_Data), IntValue(3),
                 <<DataTransferFunction_DownloadAndExecute>>, interface)

Request_flow_control_continue(ecu, interface) ==
    Request_init(ecu, None, IntValue(\H30), <<>>, interface)

Request_flow_control_request(length, data, ecu, interface) ==
    Request_init(ecu, None, IntValue(\H10), <<length>> \o data, interface)

Request_enter_diagnostic_session(ecu, interface) ==
    Request_set_mode(ECU_Mode_Diagnostic, ecu, interface)

Request_enter_device_control_session(ecu, interface) ==
    Request_set_mode(ECU_Mode_Device_Control, ecu, interface)

-----------------------------------------------------------------------------
(* Inputs *)

\* all sequences over S of length 0..n
SeqsUpTo(S, n) == UNION {[1..k -> S] : k \in 0..n}

\* bytes that reach every branch of the codec as a first, second or later byte
SampleBytes == {\H00, \H02, \H03, \H10, \H15, \H22, \H30, \H62, \H7F}

\* frames of the length a CAN frame has, and first bytes SampleBytes lacks
LongFrames ==
    {<<\H10, \H08, \H01, \H02, \H03, \H04, \H05>>,
     <<\H20, \H01, \H02, \H03, \H04, \H05, \H06, \H07>>,
     <<\H2F, \H01, \H02, \H03, \H04, \H05, \H06, \H07>>,
     <<\H21, \HAA>>, <<\H11, \H00>>, <<\H1F>>, <<\H31, \H00>>, <<\HFF, \H00>>,
     <<\H0F, \H27, \H80>>, <<\H01, \H2F>>,
     <<\H21, \HAA, \HBB, \HCC, \HDD, \HEE, \HFF, \H00>>,
     <<\H2F, \HAA, \HBB, \HCC, \HDD, \HEE, \HFF, \H00, \H99>>,
     <<\H30, \H00, \H00, \H00, \H00, \H00, \H00, \H00>>,
     <<\H08, \H23, \H00, \H00, \H10, \H00, \H00, \H20>>,
     <<\H05, \H7F, \H22, \H15, \HAA, \HBB>>,
     <<\H06, \H62, \H01, \HDE, \HAD, \HBE, \HEF>>}

Frames == SeqsUpTo(SampleBytes, MaxLen) \cup LongFrames

can0 == <<"c", "a", "n", "0">>

\* arbitration ids: every low nibble under both ECU bases, an unknown base,
\* a base with higher bits set and zero; as int, as hex text, as bytes and as
\* an ECU member
IdInts == {base + n : base \in {ECU_BCM, \H7D0, ECU_ECM, \H17E0, \H000}, n \in 0..15}
IdChars == {"7", "e", "C", "0", "x"}
IdTexts ==
    SeqsUpTo(IdChars, MaxIdLen)
        \cup {<<"0", "x", "7", "e", "0">>, <<"0", "X", "7", "C", "8">>,
              <<"0", "7", "E", "F">>, <<"7", "g", "0">>}
IdBytes == {<<55, 69, 48>>, <<55, 101, 56>>, <<48, 120, 55, 99, 48>>, <<255>>}
IdArgs ==
    {Arg("int", n) : n \in IdInts} \cup {Arg("str", t) : t \in IdTexts}
        \cup {Arg("bytes", b) : b \in IdBytes} \cup {Arg("ECU", e) : e \in ECU}

SizeArgs == {Arg("int", 3), Arg("str", <<"[", "3", "]">>), Arg("bytes", <<91, 93>>)}
SizeTexts == {<<"8">>, <<"[", "1", "0", "]">>, <<"]", "[", "2", "]">>, <<"[", "x", "]">>, <<>>}

InterfaceArgs == {Arg("str", can0), Arg("bytes", <<99, 97, 110, 48>>)}

MsgFrames ==
    LongFrames \cup {<<>>, <<\H02, \H20, \H02>>, <<\H03, \H7F, \H22, \H15>>,
                     <<\H30>>, <<\H31, \H00>>}

\* the ecu argument of the Request constructor
EcuArgs ==
    {Arg("ECU", ECU_ECM), Arg("ECU", ECU_BCM), Arg("int", \H7E0), Arg("int", \H7E8),
     Arg("str", <<"7", "c", "0">>), Arg("str", <<"0", "x", "7", "E", "0">>),
     Arg("str", <<"x">>)}

PayloadBytes == {\H00, \H7F, \H100}
ChunkBytes == {\H00, \HAB}
Payloads ==
    SeqsUpTo(PayloadBytes, MaxChunk)
        \cup {[i \in 1..n |-> \HA5] : n \in 0..MaxPayload}
Chunks == SeqsUpTo(ChunkBytes, MaxChunk)
Keys == SeqsUpTo(ChunkBytes, MaxKey)
\* addresses stay below 2^31, the largest integers TLC computes with, so the
\* OverflowError of address.to_bytes(4, "big") is out of reach; that of
\* to_bytes(2, "big") is reached by the length 0x10000
Addresses == {\H0, \H1000, \H7EADBEEF}
Lengths == {\H0, \H20, \HFFFF, \H10000}

-----------------------------------------------------------------------------
(* Operations *)

Init ==
    /\ \/ call \in [fn : {"MsgPacket.parse"}, data : Frames]
       \/ call \in [fn : {"Msg"}, can_interface : InterfaceArgs, ecu_id : IdArgs,
                    data_size : SizeArgs, msg_bytes : MsgFrames]
       \/ call \in [fn : {"Msg.parse_ecu_id"}, ecu_id : IdArgs]
       \/ call \in [fn : {"Msg.parse_size"},
                    data_size : SizeArgs \cup {Arg("str", t) : t \in SizeTexts}
                                  \cup {Arg("bytes", <<91, 56, 93>>)}]
       \/ call \in [fn : {"Request"}, ecu : EcuArgs,
                    service : {None} \cup {Member(v) : v \in Service},
                    packet_len : {None, IntValue(\H3), IntValue(\H8)},
                    data : Payloads]
       \/ call \in [fn : {"set_mode"}, mode : ECU_Mode, ecu : ECU]
       \/ call \in [fn : {"return_to_normal", "security_access_seed",
                          "programming_mode", "execute_data",
                          "flow_control_continue", "enter_diagnostic_session",
                          "enter_device_control_session"},
                    ecu : ECU]
       \/ call \in [fn : {"security_access_send_key"}, key : Keys, ecu : ECU]
       \/ call \in [fn : {"read_address"}, address : Addresses, length : Lengths,
                    ecu : ECU]
       \/ call \in [fn : {"read_did"}, did : DID \cup {\HFF, \H100}, ecu : ECU]
       \/ call \in [fn : {"request_download"}, size : Lengths, ecu : ECU]
       \/ call \in [fn : {"transfer_data"}, address : Addresses, data : Chunks,
                    packet_len : {\H8, \HB}, function : DataTransferFunction,
                    ecu : ECU]
       \/ call \in [fn : {"flow_control_request"}, length : 0..256, data : Chunks,
                    ecu : ECU]
    /\ op = "start"
    /\ orig = <<>>
    /\ buf = <<>>
    /\ packet = None
    /\ msg = None
    /\ req = None
    /\ text = <<>>
    /\ ret = None

\* the bytes a reference of a packet stands for
Deref(ref) == IF ref = "buf" THEN buf ELSE <<>>

\* the payload bytes of a packet, read now (a CommandFailurePacket has none)
PacketData(p) ==
    CASE p.cls = "CommandRequestPacket" -> Deref(p.request_data)
      [] p.cls = "CommandResponsePacket" -> Deref(p.response_data)
      [] p.cls \in {"ControlFlowRequestPacket", "ControlFlowFramePacket",
                    "ControlFlowResponsePacket"} -> Deref(p.data)
      [] OTHER -> <<>>

\* the caller builds a bytearray and calls MsgPacket.parse on it
Call_MsgPacket_parse ==
    /\ op = "start"
    /\ call.fn = "MsgPacket.parse"
    /\ LET out == MsgPacket_parse(call.data)
       IN  /\ orig' = call.data
           /\ buf' = out.data
           /\ packet' = out.ret
    /\ op' = "MsgPacket.parse"
    /\ UNCHANGED <<call, msg, req, text, ret>>

\* the caller changes its bytearray after the call (append, clear)
Caller_mutates_buf ==
    /\ op = "MsgPacket.parse"
    /\ \/ buf' = Append(buf, \H00)
       \/ buf # <<>> /\ buf' = <<>>
    /\ op' = "mutated"
    /\ UNCHANGED <<call, orig, packet, msg, req, text, ret>>

\* the packet's discriminator byte, code byte and payload given back to the
\* Request constructor.  A control-flow packet keeps no first byte: the
\* builders' markers are used, and for a frame the class's marker 0x20.
Reencode ==
    /\ op = "MsgPacket.parse"
    /\ ~packet.exc
    /\ LET ecu == Arg("ECU", ECU_ECM)
           data == PacketData(packet)
       IN  req' =
             CASE packet.cls = "CommandRequestPacket" ->
                    Request_init(ecu, Member(packet.service),
                                 IntValue(packet.packet_length), data, can0)
               [] packet.cls = "CommandResponsePacket" ->
                    Request_init(ecu, Member(packet.response_code),
                                 IntValue(packet.packet_length), data, can0)
               [] packet.cls = "CommandFailurePacket" ->
                    Request_init(ecu, Member(ResponseType_Failure),
                                 IntValue(packet.packet_length),
                                 <<packet.failure.service, packet.failure.reason>>,
                                 can0)
               [] packet.cls = "ControlFlowRequestPacket" ->
                    Request_flow_control_request(packet.data_length, data, ecu, can0)
               [] packet.cls = "ControlFlowResponsePacket" ->
                    Request_flow_control_continue(ecu, can0)
               [] packet.cls = "ControlFlowFramePacket" ->
                    Request_init(ecu, None, IntValue(\H20), data, can0)
    /\ op' = "reencoded"
    /\ UNCHANGED <<call, orig, buf, packet, msg, text, ret>>

Call_Msg ==
    /\ op = "start"
    /\ call.fn = "Msg"
    /\ LET out == Msg_init(call.can_interface, call.ecu_id, call.data_size,
                           call.msg_bytes)
       IN  /\ msg' = out.ret
           /\ buf' = out.data
    /\ orig' = call.msg_bytes
    /\ op' = "Msg"
    /\ UNCHANGED <<call, packet, req, text, ret>>

Call_Msg_parse_ecu_id ==
    /\ op = "start"
    /\ call.fn = "Msg.parse_ecu_id"
    /\ ret' = Msg_parse_ecu_id(call.ecu_id)
    /\ op' = "Msg.parse_ecu_id"
    /\ UNCHANGED <<call, orig, buf, packet, msg, req, text>>

Call_Msg_parse_size ==
    /\ op = "start"
    /\ call.fn = "Msg.parse_size"
    /\ ret' = Msg_parse_size(call.data_size)
    /\ op' = "Msg.parse_size"
    /\ UNCHANGED <<call, orig, buf, packet, msg, req, text>>

\* a builder ran and returned (or raised) r
Built(fn, r) ==
    /\ op = "start"
    /\ call.fn = fn
    /\ req' = r
    /\ op' = "Request"
    /\ UNCHANGED <<call, orig, buf, packet, msg, text, ret>>

Call_Request ==
    /\ call.fn = "Request"
    /\ Built("Request",
             Request_init(call.ecu, call.service, call.packet_len, call.data, can0))

Call_set_mode ==
    /\ call.fn = "set_mode"
    /\ Built("set_mode", Request_set_mode(call.mode, Arg("ECU", call.ecu), can0))

Call_return_to_normal ==
    /\ call.fn = "return_to_normal"
    /\ Built("return_to_normal", Request_return_to_normal(Arg("ECU", call.ecu), can0))

Call_security_access_seed ==
    /\ call.fn = "security_access_seed"
    /\ Built("security_access_seed",
             Request_security_access_seed(Arg("ECU", call.ecu), can0))

Call_security_access_send_key ==
    /\ call.fn = "security_access_send_key"
    /\ Built("security_access_send_key",
             Request_security_access_send_key(call.key, Arg("ECU", call.ecu), can0))

Call_read_address ==
    /\ call.fn = "read_address"
    /\ Built("read_address",
             Request_read_address(call.address, call.length,
                                  Arg("ECU", call.ecu), can0))

Call_read_did ==
    /\ call.fn = "read_did"
    /\ Built("read_did", Request_read_did(call.did, Arg("ECU", call.ecu), can0))

Call_programming_mode ==
    /\ call.fn = "programming_mode"
    /\ Built("programming_mode", Request_programming_mode(Arg("ECU", call.ecu), can0))

Call_request_download ==
    /\ call.fn = "request_download"
    /\ Built("request_download",
             Request_request_download(call.size, Arg("ECU", call.ecu), can0))

Call_transfer_data ==
    /\ call.fn = "transfer_data"
    /\ Built("transfer_data",
             Request_transfer_data(call.address, call.data, call.packet_len,
                                   call.function, Arg("ECU", call.ecu), can0))

Call_execute_data ==
    /\ call.fn = "execute_data"
    /\ Built("execute_data", Request_execute_data(Arg("ECU", call.ecu), can0))

Call_flow_control_continue ==
    /\ call.fn = "flow_control_continue"
    /\ Built("flow_control_continue",
             Request_flow_control_continue(Arg("ECU", call.ecu), can0))

Call_flow_control_request ==
    /\ call.fn = "flow_control_request"
    /\ Built("flow_control_request",
             Request_flow_control_request(call.length, call.data,
                                          Arg("ECU", call.ecu), can0))

Call_enter_diagnostic_session ==
    /\ call.fn = "enter_diagnostic_session"
    /\ Built("enter_diagnostic_session",
             Request_enter_diagnostic_session(Arg("ECU", call.ecu), can0))

Call_enter_device_control_session ==
    /\ call.fn = "enter_device_control_session"
    /\ Built("enter_device_control_session",
             Request_enter_device_control_session(Arg("ECU", call.ecu), can0))

\* str(request)
Call_Request_str ==
    /\ op = "Request"
    /\ ~req.exc
    /\ text' = Request_str(req)
    /\ op' = "str"
    /\ UNCHANGED <<call, orig, buf, packet, msg, req, ret>>

\* the frame of a built request, copied to a bytearray and decoded
Decode_request ==
    /\ op = "Request"
    /\ ~req.exc
    /\ LET out == MsgPacket_parse(req.data)
       IN  /\ orig' = req.data
           /\ buf' = out.data
           /\ packet' = out.ret
    /\ op' = "decoded"
    /\ UNCHANGED <<call, msg, req, text, ret>>

Next ==
    \/ Call_MsgPacket_parse
    \/ Caller_mutates_buf
    \/ Reencode
    \/ Call_Msg
    \/ Call_Msg_parse_ecu_id
    \/ Call_Msg_parse_size
    \/ Call_Request
    \/ Call_set_mode
    \/ Call_return_to_normal
    \/ Call_security_access_seed
    \/ Call_security_access_send_key
    \/ Call_read_address
    \/ Call_read_did
    \/ Call_programming_mode
    \/ Call_request_download
    \/ Call_transfer_data
    \/ Call_execute_data
    \/ Call_flow_control_continue
    \/ Call_flow_control_request
    \/ Call_enter_diagnostic_session
    \/ Call_enter_device_control_session
    \/ Call_Request_str
    \/ Decode_request

Spec == Init /\ [][Next]_vars

-----------------------------------------------------------------------------
(* What the claims expect, written without the operators of the model *)

Min(a, b) == IF a < b THEN a ELSE b
Take(seq, n) == SubSeq(seq, 1, Min(n, Len(seq)))
Drop(seq, n) == SubSeq(seq, n + 1, Len(seq))

BigEndian2(n) == <<(n \div 256) % 256, n % 256>>
BigEndian4(n) ==
    <<(n \div 16777216) % 256, (n \div 65536) % 256, (n \div 256) % 256, n % 256>>

\* the builders that put a service byte in the frame
ServiceBuilders ==
    {"set_mode", "enter_diagnostic_session", "enter_device_control_session",
     "return_to_normal", "security_access_seed", "security_access_send_key",
     "read_address", "read_did", "programming_mode", "request_download",
     "transfer_data", "execute_data"}

\* the service a call builds a frame for
BuiltService(c) ==
    CASE c.fn \in {"set_mode", "enter_diagnostic_session",
                   "enter_device_control_session"} -> 32
      [] c.fn = "return_to_normal" -> 33
      [] c.fn \in {"security_access_seed", "security_access_send_key"} -> 34
      [] c.fn = "read_address" -> 35
      [] c.fn = "read_did" -> 36
      [] c.fn = "programming_mode" -> 37
      [] c.fn = "request_download" -> 38
      [] c.fn \in {"transfer_data", "execute_data"} -> 39
      [] c.fn = "Request" -> c.service.value

\* the payload bytes a call puts after the service byte
BuiltPayload(c) ==
    CASE c.fn = "set_mode" -> <<c.mode>>
      [] c.fn = "enter_diagnostic_session" -> <<2>>
      [] c.fn = "enter_device_control_session" -> <<3>>
      [] c.fn \in {"return_to_normal", "programming_mode"} -> <<>>
      [] c.fn = "security_access_seed" -> <<1>>
      [] c.fn = "security_access_send_key" -> <<2>> \o c.key
      [] c.fn = "read_address" -> BigEndian4(c.address) \o BigEndian2(c.length)
      [] c.fn = "read_did" -> <<c.did>>
      [] c.fn = "request_download" -> BigEndian2(c.size)
      [] c.fn = "transfer_data" ->
            <<c.function>> \o BigEndian4(c.address) \o c.data
      [] c.fn = "execute_data" -> <<128>>
      [] c.fn = "Request" -> c.data

\* the discriminator byte a call puts first: the one the builder hard-codes,
\* or 1 + the payload's length
BuiltDiscriminator(c) ==
    CASE c.fn = "security_access_send_key" -> 6
      [] c.fn \in {"read_address", "transfer_data"} -> 8
      [] c.fn = "execute_data" -> 3
      [] OTHER -> 1 + Len(BuiltPayload(c))

\* a call within C1: a catalog builder with the discriminator it hard-codes,
\* or the Request constructor with a service and no discriminator given
BuildsCommandRequest(c) ==
    \/ c.fn \in ServiceBuilders /\ (c.fn = "transfer_data" => c.packet_len = 8)
    \/ c.fn = "Request" /\ c.service # None /\ c.packet_len = None

-----------------------------------------------------------------------------
(* C1 *)

\* C1 as stated: for every service and every payload, the frame a builder
\* makes decodes to a CommandRequest with the built service and payload.
C1_AsStated ==
    (op = "decoded" /\ BuildsCommandRequest(call)) =>
        /\ packet.cls = "CommandRequestPacket"
        /\ packet.service = BuiltService(call)
        /\ PacketData(packet) = BuiltPayload(call)

\* C1 amended: the frame decodes to a CommandRequest with the built service
\* whose payload is the first (discriminator - 1) bytes of the built payload,
\* so the whole payload whenever 1 + its length is at most the discriminator;
\* for the Request constructor with its default discriminator this covers
\* the payloads of at most 14 bytes.
C1_BuiltRequestDecodes ==
    (/\ op = "decoded"
     /\ BuildsCommandRequest(call)
     /\ (call.fn = "Request" => Len(call.data) <= 14)) =>
        /\ packet.cls = "CommandRequestPacket"
        /\ packet.service = BuiltService(call)
        /\ PacketData(packet) = Take(BuiltPayload(call), BuiltDiscriminator(call) - 1)
        /\ (1 + Len(BuiltPayload(call)) <= BuiltDiscriminator(call)
               => PacketData(packet) = BuiltPayload(call))

\* a key of five bytes was sent and its frame decoded: the last byte is cut
C1_Witness ==
    /\ op = "decoded"
    /\ call.fn = "security_access_send_key"
    /\ Len(call.key) = 5
    /\ packet.cls = "CommandRequestPacket"
    /\ Len(PacketData(packet)) = 5

-----------------------------------------------------------------------------
(* C2 *)

\* a frame with no bytes beyond its declared length
WellFormed(x) ==
    /\ Len(x) >= 1
    /\ IF x[1] <= 15 THEN Len(x) - 1 <= x[1]
       ELSE IF x[1] = 16 THEN Len(x) >= 2
       ELSE IF x[1] \div 16 = 2 THEN Len(x) = 8
       ELSE x = <<48>>

\* C2 as stated: decoding a well-formed frame and re-encoding the packet
\* gives the frame back.
C2_AsStated ==
    (op = "reencoded" /\ WellFormed(orig)) => (~req.exc /\ req.data = orig)

\* C2 amended: re-encoding gives the frame back for a CommandRequest or
\* CommandResponse frame with at most b0 bytes after the length byte, for a
\* CommandFailure frame that ends with its reason byte, for every
\* FlowControlRequest frame and for the single byte 0x30; of a
\* FlowControlFrame only the bytes after the first are given back, since
\* decode keeps nothing of the first byte.
C2_RoundTrip ==
    op = "reencoded" =>
        /\ ~req.exc
        /\ (/\ packet.cls \in {"CommandRequestPacket", "CommandResponsePacket"}
            /\ Len(orig) - 1 <= orig[1]) => req.data = orig
        /\ (packet.cls = "CommandFailurePacket" /\ Len(orig) = 4) => req.data = orig
        /\ packet.cls = "ControlFlowRequestPacket" => req.data = orig
        /\ (packet.cls = "ControlFlowResponsePacket" /\ Len(orig) = 1)
               => req.data = orig
        /\ packet.cls = "ControlFlowFramePacket" => Tail(req.data) = Tail(orig)

\* a flow-control request frame of seven bytes was decoded and re-encoded
C2_Witness ==
    /\ op = "reencoded"
    /\ packet.cls = "ControlFlowRequestPacket"
    /\ Len(orig) = 7
    /\ req.data = orig

-----------------------------------------------------------------------------
(* C3 *)

\* a Command frame with fewer bytes after the length byte than it declares
Truncated(x) == Len(x) >= 1 /\ x[1] <= 15 /\ Len(x) - 1 < x[1]

\* C3 as stated: a truncated Command frame makes decode fail.
C3_AsStated ==
    (op = "MsgPacket.parse" /\ Truncated(orig)) => packet.exc

\* C3 amended: on a truncated Command frame decode fails only when a byte it
\* reads is absent (no second byte; a CommandFailure without both its
\* service and reason byte) or a code is outside its table; otherwise it
\* returns the packet built from the bytes present, the payload of a
\* CommandRequest or CommandResponse being every byte after the second.
C3_TruncatedDecodes ==
    (op = "MsgPacket.parse" /\ Truncated(orig)) =>
        /\ packet.exc <=>
              \/ Len(orig) < 2
              \/ /\ Len(orig) >= 2
                 /\ \/ orig[2] = 127 /\ Len(orig) < 4
                    \/ /\ orig[2] = 127
                       /\ Len(orig) >= 4
                       /\ (orig[3] \notin Service \/ orig[4] \notin FailureReason)
                    \/ orig[2] < 48 /\ orig[2] \notin Service
                    \/ orig[2] >= 48 /\ orig[2] # 127 /\ orig[2] \notin ResponseType
        /\ packet.cls \in {"CommandRequestPacket", "CommandResponsePacket"}
               => PacketData(packet) = Drop(orig, 2)

\* a request frame that declares three bytes and holds two was decoded
C3_Witness ==
    /\ op = "MsgPacket.parse"
    /\ Truncated(orig)
    /\ packet.cls = "CommandRequestPacket"
    /\ orig[1] = 3
    /\ Len(orig) = 3

-----------------------------------------------------------------------------
(* C4 *)

\* the number an arbitration id given as int, hex text or bytes stands for
IdNumber(a) ==
    CASE a.t = "int" -> [cls |-> "int", exc |-> FALSE, value |-> a.v]
      [] a.t = "str" -> int_of(a.v, 16)
      [] a.t = "bytes" ->
            IF bytes_decode(a.v).exc THEN bytes_decode(a.v)
            ELSE int_of(bytes_decode(a.v).value, 16)
      [] OTHER -> Exception("TypeError")

\* id & 0xFF0, by arithmetic
IdBase(n) == ((n \div 16) % 256) * 16

\* C4: the ECU is the table entry for (id & 0xFF0), the construction fails
\* with a ValueError when that base is neither 0x7C0 nor 0x7E0, and the
\* direction is Request iff the low nibble is 0.
C4_EcuAndDirection ==
    /\ (op = "Msg.parse_ecu_id" /\ ~IdNumber(call.ecu_id).exc) =>
          LET n == IdNumber(call.ecu_id).value
          IN  IF IdBase(n) \in {1984, 2016}
              THEN ret = [cls |-> "tuple", exc |-> FALSE, ecu |-> IdBase(n),
                          msg_dir |-> IF n % 16 = 0 THEN 0 ELSE 1]
              ELSE ret = Exception("ValueError")
    /\ (op = "Msg" /\ ~IdNumber(call.ecu_id).exc) =>
          LET n == IdNumber(call.ecu_id).value
          IN  /\ IdBase(n) \notin {1984, 2016} => msg = Exception("ValueError")
              /\ ~msg.exc => /\ msg.ecu = IdBase(n)
                             /\ msg.direction = 0 <=> n % 16 = 0
                             /\ msg.direction \in {0, 1}
    /\ (op = "Msg.parse_ecu_id" /\ call.ecu_id = Arg("bytes", <<55, 101, 56>>)) =>
          ret = [cls |-> "tuple", exc |-> FALSE, ecu |-> 2016, msg_dir |-> 1]
    /\ (op = "Msg.parse_ecu_id"
            /\ call.ecu_id = Arg("str", <<"0", "X", "7", "C", "8">>)) =>
          ret = [cls |-> "tuple", exc |-> FALSE, ecu |-> 1984, msg_dir |-> 1]

\* a Msg was built from a hex text id with a non-zero low nibble
C4_Witness ==
    /\ op = "Msg"
    /\ ~msg.exc
    /\ call.ecu_id.t = "str"
    /\ msg.ecu = 2016
    /\ msg.direction = 1

-----------------------------------------------------------------------------
(* C5 *)

\* the bytes a Command frame keeps after its second byte
Retained(x) == SubSeq(x, 3, Min(Len(x), 1 + x[1]))

\* C5: on the Command path the second byte alone chooses the variant, the
\* codes are looked up in their tables, and decode fails when a code is
\* outside its table.
C5_CommandVariant ==
    (op = "MsgPacket.parse" /\ Len(orig) >= 2 /\ orig[1] <= 15) =>
        LET b0 == orig[1]
            b1 == orig[2]
        IN  /\ ~packet.exc =>
                 /\ packet.cls = "CommandFailurePacket" <=> b1 = 127
                 /\ packet.cls = "CommandRequestPacket" <=> b1 < 48
                 /\ packet.cls = "CommandResponsePacket" <=> (b1 >= 48 /\ b1 # 127)
            /\ packet.cls = "CommandFailurePacket" =>
                 /\ packet.failure.service = orig[3]
                 /\ packet.failure.reason = orig[4]
                 /\ orig[3] \in Service
                 /\ orig[4] \in FailureReason
            /\ packet.cls = "CommandRequestPacket" =>
                 /\ packet.service = b1
                 /\ b1 \in Service
                 /\ PacketData(packet) = Retained(orig)
            /\ packet.cls = "CommandResponsePacket" =>
                 /\ packet.response_code = b1
                 /\ b1 \in ResponseType
                 /\ PacketData(packet) = Retained(orig)
            /\ (b1 < 48 /\ b1 \notin Service) => packet.exc
            /\ (b1 >= 48 /\ b1 # 127 /\ b1 \notin ResponseType) => packet.exc
            /\ (/\ b1 = 127
                /\ Len(orig) >= 4
                /\ (orig[3] \notin Service \/ orig[4] \notin FailureReason))
                   => packet.exc
            /\ (b0 >= 1 /\ b1 \in Service) => packet.cls = "CommandRequestPacket"
            /\ (b0 >= 1 /\ b1 \in ResponseType /\ b1 # 127)
                   => packet.cls = "CommandResponsePacket"
            /\ (/\ b0 >= 3
                /\ b1 = 127
                /\ Len(orig) >= 4
                /\ orig[3] \in Service
                /\ orig[4] \in FailureReason) => packet.cls = "CommandFailurePacket"

\* a failure frame was decoded to its service and reason
C5_Witness ==
    /\ op = "MsgPacket.parse"
    /\ orig = <<3, 127, 34, 21>>
    /\ packet.cls = "CommandFailurePacket"
    /\ packet.failure.service = 34
    /\ packet.failure.reason = 21

-----------------------------------------------------------------------------
(* C6 *)

\* C6 as stated: on the control-flow path the first byte alone decides
\* between the three variants and failure.
C6_AsStated ==
    (op = "MsgPacket.parse" /\ Len(orig) >= 1 /\ orig[1] > 15) =>
        /\ packet.cls = "ControlFlowRequestPacket" <=> orig[1] = 16
        /\ packet.cls = "ControlFlowFramePacket" <=> orig[1] \div 16 = 2
        /\ packet.cls = "ControlFlowResponsePacket" <=> orig[1] = 48
        /\ (orig[1] # 16 /\ orig[1] \div 16 # 2 /\ orig[1] # 48) => packet.exc

\* C6 amended: decode returns FlowControlRequest iff b0 == 0x10 and a length
\* byte follows it (the single byte 0x10 fails with an IndexError),
\* FlowControlFrame iff (b0 & 0xF0) == 0x20, FlowControlContinue iff
\* b0 == 0x30, and for every other b0 above 0x0F it fails (a TypeError) and
\* returns no packet.
C6_ControlFlowVariant ==
    (op = "MsgPacket.parse" /\ Len(orig) >= 1 /\ orig[1] > 15) =>
        /\ packet.cls = "ControlFlowRequestPacket" <=> (orig[1] = 16 /\ Len(orig) >= 2)
        /\ (orig[1] = 16 /\ Len(orig) = 1) => packet = Exception("IndexError")
        /\ packet.cls = "ControlFlowFramePacket" <=> orig[1] \div 16 = 2
        /\ packet.cls = "ControlFlowResponsePacket" <=> orig[1] = 48
        /\ (orig[1] # 16 /\ orig[1] \div 16 # 2 /\ orig[1] # 48)
               => packet = Exception("TypeError")

\* a frame whose first byte is no control-flow type was refused
C6_Witness ==
    /\ op = "MsgPacket.parse"
    /\ orig = <<49, 0>>
    /\ packet = Exception("TypeError")

-----------------------------------------------------------------------------
(* C7 *)

\* C7 as stated: a decoded FlowControlFrame carries exactly 7 payload bytes,
\* as many as its data_length field says, or decode fails.
C7_AsStated ==
    (op = "MsgPacket.parse" /\ Len(orig) >= 1 /\ orig[1] \div 16 = 2) =>
        \/ packet.exc
        \/ /\ packet.cls = "ControlFlowFramePacket"
           /\ Len(PacketData(packet)) = 7
           /\ packet.data_length = Len(PacketData(packet))

-----------------------------------------------------------------------------
(* C8 *)

LowerHex == {HexDigits[i] : i \in 1..16}

\* the place of the # in a rendered request
HashAt(t) == CHOOSE i \in 1..Len(t) : t[i] = "#"

\* C8: without a discriminator given, the buffer is 1 + len(payload), the
\* service code, the payload; str() is the ECU id in lowercase hex, #, the
\* buffer in lowercase hex, two digits a byte.
C8_DefaultDiscriminatorAndRender ==
    /\ (/\ op \in {"Request", "str", "decoded"}
        /\ BuildsCommandRequest(call)
        /\ BuiltDiscriminator(call) = 1 + Len(BuiltPayload(call))
        /\ ~req.exc) =>
          /\ req.data[1] = 1 + Len(BuiltPayload(call))
          /\ req.data[2] = BuiltService(call)
          /\ Drop(req.data, 2) = BuiltPayload(call)
          /\ Len(req.data) = 2 + Len(BuiltPayload(call))
    /\ op = "str" =>
          /\ Cardinality({i \in 1..Len(text) : text[i] = "#"}) = 1
          /\ \A i \in 1..Len(text) : text[i] \in LowerHex \cup {"#"}
          /\ text[1] # "0"
          /\ int_of(SubSeq(text, 1, HashAt(text) - 1), 16).value = req.ecu
          /\ Len(text) = HashAt(text) + 2 * Len(req.data)
          /\ \A i \in 1..Len(req.data) :
                int_of(<<text[HashAt(text) + 2 * i - 1], text[HashAt(text) + 2 * i]>>,
                       16).value = req.data[i]
    /\ (op = "str" /\ call.fn = "enter_diagnostic_session" /\ call.ecu = 2016) =>
          text = <<"7", "e", "0", "#", "0", "2", "2", "0", "0", "2">>
    /\ (op = "str" /\ call.fn = "set_mode" /\ call.mode = 2 /\ call.ecu = 2016) =>
          text = <<"7", "e", "0", "#", "0", "2", "2", "0", "0", "2">>

\* entering diagnostic mode on the engine module was rendered
C8_Witness ==
    /\ op = "str"
    /\ call.fn = "set_mode"
    /\ call.mode = 2
    /\ call.ecu = 2016
    /\ req.data = <<2, 32, 2>>
    /\ text = <<"7", "e", "0", "#", "0", "2", "2", "0", "0", "2">>

-----------------------------------------------------------------------------
(* C9 *)

\* C9: flow_control_continue builds the single byte 0x30, which decodes to a
\* FlowControlContinue without data; flow_control_request(length, data)
\* builds 0x10, length, data, which decodes to a FlowControlRequest with
\* that declared length and that data, for every length in 0..255.
C9_FlowControlBuilders ==
    /\ (op \in {"Request", "str", "decoded"} /\ call.fn = "flow_control_continue") =>
          /\ ~req.exc
          /\ req.data = <<48>>
    /\ (op = "decoded" /\ call.fn = "flow_control_continue") =>
          /\ packet.cls = "ControlFlowResponsePacket"
          /\ PacketData(packet) = <<>>
    /\ (/\ op \in {"Request", "str", "decoded"}
        /\ call.fn = "flow_control_request"
        /\ call.length \in 0..255) =>
          /\ ~req.exc
          /\ req.data = <<16, call.length>> \o call.data
    /\ (op = "decoded" /\ call.fn = "flow_control_request") =>
          /\ packet.cls = "ControlFlowRequestPacket"
          /\ packet.data_length = call.length
          /\ PacketData(packet) = call.data

\* a flow-control request announcing 8 bytes with a chunk of 3 was decoded
C9_Witness ==
    /\ op = "decoded"
    /\ call.fn = "flow_control_request"
    /\ call.length = 8
    /\ Len(call.data) = 3
    /\ packet.cls = "ControlFlowRequestPacket"
    /\ packet.data_length = 8

-----------------------------------------------------------------------------
(* C10 *)

\* C10 as stated: MsgPacket.parse leaves the caller's bytearray as it was,
\* and a later change of the bytearray does not change the payload of the
\* packet that was returned.
C10_AsStated ==
    [][/\ op' = "MsgPacket.parse" => buf' = orig'
       /\ (Caller_mutates_buf /\ ~packet.exc)
              => PacketData(packet)' = PacketData(packet)]_vars

====
